---- MODULE Spec2Model ----
(***************************************************************************)
(* A model of the AnADAMA workflow engine (anadama/workflow.py): task      *)
(* registration, the dependency DAG, the skip filter, and a run of the    *)
(* registered tasks through the runner's dispatch loop.                    *)
(***************************************************************************)
EXTENDS Integers, Sequences, FiniteSets, TLC

(* ------------------------------ bounds --------------------------------- *)
\* number of add_task calls (task numbers handed out by task_counter)
MaxTasks == 3
\* number of add_task calls in the workflows with tracked files (SpecFp)
MaxFpTasks == 2
\* number of task numbers handed out in the registration scripts (SpecReg)
MaxRegTasks == 3
\* longest depends list of a registration script (SpecReg)
MaxRegDeps == 2
\* largest local pool size (n_parallel) tried by go
MaxParallel == 2
\* compare() values of a tracked object range over 0..MaxCmp
MaxCmp == 1

(* --------------------------- tracked objects --------------------------- *)
\* f, g: tracked files (must_preexist is true); v: a tracked variable
\* (must_preexist is false)
Objs == {"f", "g", "v"}
NoObj == "none"
NoTask == -1
Absent == -1
CmpVals == 0..MaxCmp

must_preexist(o) == o \in {"f", "g"}

\* an entry of a task's depends list: a tracked object or a task
ObjDep(o) == [task |-> NoTask, obj |-> o]
TaskDep(k) == [task |-> k, obj |-> NoObj]
istask(d) == d.task # NoTask

Range(s) == {s[i] : i \in DOMAIN s}

VARIABLES
    strict,          \* Workflow.strict
    tasks,           \* Workflow.tasks: the task list
    task_counter,    \* Workflow.task_counter: the next task_no
    dag_nodes,       \* Workflow.dag, its nodes (task numbers)
    dag_edges,       \* Workflow.dag, its edges <<parent, child>>
    depidx,          \* Workflow._depidx: tracked object -> producing task_no
    reg_error,       \* the exception the last add_task call raised, or NoError
    store,           \* Workflow._backend: tracked object -> saved compare
    cmp,             \* the environment: compare() of every tracked object
    pc,              \* where the program is: registering, in go, after go
    opts,            \* the arguments and configuration of the current go
    completed_tasks, \* Workflow.completed_tasks
    failed_tasks,    \* Workflow.failed_tasks
    task_results,    \* Workflow.task_results
    skipped,         \* tasks reported by reporter.task_skipped in this run
    pending,         \* the deque of task numbers handed to the runner
    work_q,          \* the runner's work queue
    running,         \* tasks a worker is executing
    result_q,        \* the runner's result queue
    in_flight,       \* dispatched tasks whose result is not yet handled
    cancelled,       \* quit_early has stopped the dispatch of new work
    started,         \* tasks whose actions were started in this run
    hlog,            \* the last _handle_task_result: its task and its statements in order
    saves,           \* calls of the backend's save in this run
    handed,          \* the tasks go handed to the runner in this run
    finished,        \* reporter.finished() was called in this run
    grid_pc,         \* where a grid worker is in the run of its task
    resubmission,    \* run_task_command: resubmission
    tries,           \* _run_task_slurm: tries
    time,            \* the time request, in minutes
    memory,          \* the memory request, in MB
    cores,           \* the cores request
    jobid,           \* the job id of the last submission
    job_final_status,\* the status monitor_grid_job ended with
    grid_result,     \* the TaskResult the worker has so far
    submissions,     \* the requests submitted to the scheduler, in order
    job_log,         \* the task's jobs in order: job id and final status
    return_code,     \* monitor_grid_job: the content of the job's return code file
    produced,        \* the task's targets existed when the last job ended
    polls,           \* status polls of the task, and those of the current job
    benchmarks,      \* calls of record_benchmark for the task
    task_data,       \* Grid.task_data: the task numbers that have grid settings
    lock_submit,     \* GridQueue.lock_submit: the worker that holds it, or Free
    worker_pc,       \* where each grid worker is in submit_job
    now,             \* the clock, in seconds
    wake,            \* when the sleep of the worker in time.sleep is over
    last_submitted,  \* when the last submit command returned
    submit_gap,      \* the time from then to the start of the next one
    lock_status,     \* GridQueue.lock_status: the worker that holds it, or Free
    last_check,      \* GridQueue.last_check
    sacct,           \* GridQueue.sacct: the cached snapshot, or None
    outcomes,        \* how the commands of the current submit_job ended, in order
    status_call,     \* the last get_queue_status call: what it found and did
    last_query,      \* when the last status query was started
    job,             \* the submitted job as the scheduler has it
    cached           \* the cached snapshot's entry for the job, and its age

\* what the registration and the run of a workflow never assign
gridvars == <<grid_pc, resubmission, tries, time, memory, cores, jobid,
              job_final_status, grid_result, submissions, job_log, return_code,
              produced, polls, benchmarks>>
queuevars == <<lock_submit, worker_pc, now, wake, last_submitted, submit_gap>>
clientvars == <<lock_status, last_check, sacct, outcomes, status_call, last_query>>
monitorvars == <<job, cached>>
confvars == <<strict, gridvars, task_data, queuevars, clientvars, monitorvars>>
regvars == <<confvars, tasks, task_counter, dag_nodes, dag_edges, depidx, reg_error>>
runvars == <<pc, opts, completed_tasks, failed_tasks, task_results, skipped,
             pending, work_q, running, result_q, in_flight, cancelled,
             started, hlog, saves, handed, finished>>
vars == <<regvars, store, cmp, runvars>>
\* what a grid worker's run of a task never assigns
corevars == <<strict, task_data, tasks, task_counter, dag_nodes, dag_edges,
              depidx, reg_error, store, cmp, runvars, clientvars, monitorvars>>
workflowvars == <<corevars, queuevars>>

(* ----------------------------- registration ---------------------------- *)
\* no exception
NoError == "none"

\* name=None
NoName == ""

\* _build_name(name, task_no)
_build_name(name, task_no) ==
    IF name = NoName THEN "Step " \o ToString(task_no) ELSE name

\* Task(name, actions, deps, targs, task_no)
Task(name, deps, targs, task_no) ==
    [name |-> name, task_no |-> task_no, depends |-> deps, targets |-> targs]

\* the registration state threaded through add_task
RegState ==
    [tasks |-> tasks, counter |-> task_counter, nodes |-> dag_nodes,
     edges |-> dag_edges, depidx |-> depidx, raised |-> NoError]

\* a slip: the edge is added from the child to the parent
add_edge_reversed(w, a, b) ==
    [w EXCEPT !.nodes = @ \cup {a, b}, !.edges = @ \cup {<<b, a>>}]

\* dag.add_edge(a, b): networkx adds the end points as nodes
add_edge(w, a, b) ==
    [w EXCEPT !.nodes = @ \cup {a, b}, !.edges = @ \cup {<<a, b>>}]

\* dag.remove_node(n): the node goes with its edges
remove_node(w, n) ==
    [w EXCEPT !.nodes = @ \ {n},
              !.edges = {e \in @ : e[1] # n /\ e[2] # n}]

\* for targ in task.targets: self._depidx.link(targ, task)
link_targets(w, targs, task_no) ==
    [w EXCEPT !.depidx = [o \in Objs |-> IF o \in targs THEN task_no ELSE @[o]]]

\* already_exists(dep): add_task(noop, targets=[dep], name="Track
\* pre-existing dependencies"); the no-op task has no
\* depends, so its _add_task only appends, adds the node and links the target
already_exists(w, dep) ==
    LET no == w.counter
        w1 == [w EXCEPT !.counter = @ + 1,
                        !.tasks = Append(@, Task("Track pre-existing dependencies",
                                                 <<>>, {dep}, no)),
                        !.nodes = @ \cup {no}]
    IN  link_targets(w1, {dep}, no)

\* _handle_nosuchdep: self.tasks.pop(); self.dag.remove_node(task.task_no);
\* raise KeyError
handle_nosuchdep(w, task_no) ==
    LET w1 == [w EXCEPT !.tasks = SubSeq(@, 1, Len(@) - 1), !.raised = "KeyError"]
    IN  remove_node(w1, task_no)

RECURSIVE resolve_depends(_, _, _, _, _)
\* a slip: an existing object is declared pre-existing in strict mode too
resolve_depends_strict_ignored(w, deps, i, task_no, exist) ==
    IF i > Len(deps) THEN w
    ELSE LET dep == deps[i] IN
      IF istask(dep)
      THEN resolve_depends(add_edge(w, dep.task, task_no), deps, i + 1, task_no, exist)
      ELSE IF w.depidx[dep.obj] = NoTask /\ ~must_preexist(dep.obj)
      THEN resolve_depends(w, deps, i + 1, task_no, exist)
      ELSE LET w1 == IF w.depidx[dep.obj] = NoTask /\ dep.obj \in exist
                     THEN already_exists(w, dep.obj)
                     ELSE w
           IN  IF w1.depidx[dep.obj] = NoTask
               THEN handle_nosuchdep(w1, task_no)
               ELSE resolve_depends(add_edge(w1, w1.depidx[dep.obj], task_no),
                                    deps, i + 1, task_no, exist)

\* the loop "for dep in task.depends" of _add_task from entry i on;
\* exist is the set of tracked objects whose exists() is true
resolve_depends(w, deps, i, task_no, exist) ==
    IF i > Len(deps) THEN w
    ELSE LET dep == deps[i] IN
      IF istask(dep)
      THEN resolve_depends(add_edge(w, dep.task, task_no), deps, i + 1, task_no, exist)
      ELSE IF w.depidx[dep.obj] = NoTask /\ ~must_preexist(dep.obj)
      THEN resolve_depends(w, deps, i + 1, task_no, exist)
      ELSE LET w1 == IF w.depidx[dep.obj] = NoTask /\ ~strict /\ dep.obj \in exist
                     THEN already_exists(w, dep.obj)
                     ELSE w
           IN  IF w1.depidx[dep.obj] = NoTask
               THEN handle_nosuchdep(w1, task_no)
               ELSE resolve_depends(add_edge(w1, w1.depidx[dep.obj], task_no),
                                    deps, i + 1, task_no, exist)

\* _add_task(task)
_add_task(w, name, deps, targs, task_no, exist) ==
    LET w1 == [w EXCEPT !.tasks = Append(@, Task(name, deps, targs, task_no)),
                        !.nodes = @ \cup {task_no}]
        w2 == resolve_depends(w1, deps, 1, task_no, exist)
    IN  IF w2.raised # NoError THEN w2 ELSE link_targets(w2, targs, task_no)

\* _build_targets(targets): a task among the targets raises ValueError
_build_targets(targets) ==
    [raised |-> \E t \in targets : istask(t),
     ret |-> {t.obj : t \in {x \in targets : ~istask(x)}}]

\* a slip: the task number is taken before the targets are looked at
add_task_counter_first(w, name, depends, targets, exist) ==
    LET targs == _build_targets(targets)
        w1 == [w EXCEPT !.counter = @ + 1]
    IN  IF targs.raised THEN [w1 EXCEPT !.raised = "ValueError"]
        ELSE _add_task(w1, _build_name(name, w.counter), depends, targs.ret,
                       w.counter, exist)

\* add_task(actions, depends, targets, name): the targets are built, then
\* task_no = next(self.task_counter), then the task is made and added
add_task(w, name, depends, targets, exist) ==
    LET targs == _build_targets(targets)
    IN  IF targs.raised THEN [w EXCEPT !.raised = "ValueError"]
        ELSE _add_task([w EXCEPT !.counter = @ + 1],
                       _build_name(name, w.counter), depends, targs.ret,
                       w.counter, exist)

(* ------------------------------- the DAG ------------------------------- *)
\* self.tasks[i]: the task list is indexed by position
TaskAt(i) == tasks[i + 1]

\* dag.predecessors(n)
predecessors(n) == {e[1] : e \in {x \in dag_edges : x[2] = n}}

\* allparents(dag, task_no): task_no and all its ancestors
RECURSIVE allparents_from(_, _)
allparents_from(seen, to_check) ==
    IF to_check = {} THEN seen
    ELSE LET idx == CHOOSE n \in to_check : TRUE
             new == seen \cup {idx}
         IN  allparents_from(new, (to_check \cup predecessors(idx)) \ new)

allparents(task_no) == allparents_from({}, {task_no})

\* allchildren(dag, task_no): the descendants of task_no
allchildren(task_no) == {d \in dag_nodes \ {task_no} : task_no \in allparents(d)}

\* nx.algorithms.dag.topological_sort(self.dag, reverse=True): every order of
\* the nodes in which a child comes before each of its parents
Perms(S) ==
    {p \in [1..Cardinality(S) -> S] : \A i, j \in DOMAIN p : i # j => p[i] # p[j]}

topological_sort_reverse ==
    {p \in Perms(dag_nodes) :
        \A i, j \in DOMAIN p : <<p[i], p[j]>> \in dag_edges => j < i}

\* a slip: the tasks that pass come out in the opposite order
RECURSIVE filter_backwards(_, _)
filter_backwards(seq, S) ==
    IF seq = <<>> THEN <<>>
    ELSE IF Head(seq) \in S THEN filter_backwards(Tail(seq), S) \o <<Head(seq)>>
    ELSE filter_backwards(Tail(seq), S)

\* filter(pred, seq)
RECURSIVE filter(_, _)
filter(seq, S) ==
    IF seq = <<>> THEN <<>>
    ELSE IF Head(seq) \in S THEN <<Head(seq)>> \o filter(Tail(seq), S)
    ELSE filter(Tail(seq), S)

(* ---------------------------- the skip filter -------------------------- *)
\* the tracked objects of a task that are not tasks:
\* itertools.chain(task.depends, task.targets) without istask(dep)
tracked_objects(task) ==
    {d.obj : d \in {x \in Range(task.depends) : ~istask(x)}} \cup task.targets

\* tracked.any_different([dep], backend): no saved compare, or a different one
any_different(o) == store[o] = Absent \/ store[o] # cmp[o]

\* a slip: no task is marked to run for having no targets and no depends
_always_rerun_never(task_no) == FALSE

\* _always_rerun(task_no)
_always_rerun(task_no) ==
    LET task == TaskAt(task_no)
    IN  task.targets = {} /\ task.depends = <<>>

\* the tasks _aggregate_deps groups under a tracked object that differs
dep_changed(idxs) ==
    {idx \in Range(idxs) : \E o \in tracked_objects(TaskAt(idx)) : any_different(o)}

\* while idxs: idx = idxs.pop(); a task with a parent in should_run must run
\* a slip: a task is not marked to run for a parent that will run
propagate_none(should_run, idxs) == should_run

\* a slip: idxs is walked from its left end, where the children are
RECURSIVE propagate_children_first(_, _)
propagate_children_first(should_run, idxs) ==
    IF idxs = <<>> THEN should_run
    ELSE LET idx == Head(idxs)
             rest == Tail(idxs)
         IN  IF idx \in should_run THEN propagate_children_first(should_run, rest)
             ELSE IF predecessors(idx) \cap should_run # {}
             THEN propagate_children_first(should_run \cup {idx}, rest)
             ELSE propagate_children_first(should_run, rest)

RECURSIVE propagate(_, _)
propagate(should_run, idxs) ==
    IF idxs = <<>> THEN should_run
    ELSE LET idx == idxs[Len(idxs)]
             rest == SubSeq(idxs, 1, Len(idxs) - 1)
         IN  IF idx \in should_run THEN propagate(should_run, rest)
             ELSE IF predecessors(idx) \cap should_run # {}
             THEN propagate(should_run \cup {idx}, rest)
             ELSE propagate(should_run, rest)

\* the should_run set of _filter_skipped_tasks(task_idxs)
should_run_of(task_idxs) ==
    LET always == {i \in Range(task_idxs) : _always_rerun(i)}
        idxs == filter(task_idxs, Range(task_idxs) \ always)
    IN  propagate(always \cup dep_changed(idxs), idxs)

(* --------------------------------- go ---------------------------------- *)
None == -1
NoResult == [task_no |-> None, error |-> <<"None">>, deps |-> <<>>]

\* until_task = until_task or self.vars.get("until_task"): the configuration
\* holds no until_task, and a task number 0 is false in Python
until_task_of(until_arg) == IF until_arg = 0 THEN None ELSE until_arg

\* the candidates after "if until_task is not None"
until_filter(task_idxs, until_task) ==
    IF until_task = None THEN task_idxs
    ELSE filter(task_idxs, allparents(TaskAt(until_task).task_no))

\* self.tasks[idx] raises IndexError for an idx past the task list, and
\* allparents raises for a task number that is no node of the dag
go_raises(task_idxs, until_task, filtering) ==
    \/ until_task # None /\ TaskAt(until_task).task_no \notin dag_nodes
    \/ filtering /\ \E i \in Range(until_filter(task_idxs, until_task)) : i >= Len(tasks)

\* a slip: the skipped task is reported but not added to completed_tasks
_handle_task_skipped_lost(completed, task_no) == completed

\* _handle_task_skipped(task_no): self.completed_tasks.add(task_no)
_handle_task_skipped(completed, task_no) == completed \cup {task_no}

\* for idx in skipped: self._handle_task_skipped(idx)
RECURSIVE handle_skipped(_, _)
handle_skipped(completed, skip) ==
    IF skip = {} THEN completed
    ELSE LET idx == CHOOSE i \in skip : TRUE
         IN  handle_skipped(_handle_task_skipped(completed, idx), skip \ {idx})

\* a slip: the two rates are given to the wrong pools
runner_rates_swapped(jobs, grid_jobs) ==
    [rate |-> [local |-> grid_jobs, grid |-> jobs], default |-> "local",
     routes |-> task_data]

\* Grid.runner(workflow, jobs, grid_jobs): the pool "local" with rate jobs is
\* the default, the grid pool has rate grid_jobs, and the tasks of
\* task_data are routed to the grid pool
runner(jobs, grid_jobs) ==
    [rate |-> [local |-> jobs, grid |-> grid_jobs], default |-> "local",
     routes |-> task_data]

\* go(run_them_all, quit_early, n_parallel, n_grid_parallel, until_task) up
\* to the hand-over of the deque to the runner; task_idxs is the
\* topological order chosen
GoWith(run_them_all, var_run_them_all, quit_early, until_arg, n_parallel, n_grid_parallel, task_idxs) ==
    /\ pc = "reg"
    /\ LET until_task == until_task_of(until_arg)
           filtering == ~run_them_all \/ ~var_run_them_all
           raises == go_raises(task_idxs, until_task, filtering)
           cands == IF raises THEN <<>> ELSE until_filter(task_idxs, until_task)
           should_run == IF filtering /\ ~raises THEN should_run_of(cands)
                         ELSE Range(cands)
           to_run == filter(cands, should_run)
           skip == Range(cands) \ should_run
       IN  /\ pc' = IF raises THEN "crashed" ELSE "running"
           /\ opts' = [run_them_all |-> run_them_all,
                       var_run_them_all |-> var_run_them_all,
                       quit_early |-> quit_early, until_arg |-> until_arg,
                       n_parallel |-> n_parallel,
                       n_grid_parallel |-> n_grid_parallel,
                       runner |-> runner(n_parallel, n_grid_parallel)]
           /\ completed_tasks' = handle_skipped({}, skip)
           /\ skipped' = skip
           /\ pending' = to_run
           /\ handed' = Range(to_run)
    /\ failed_tasks' = {}
    /\ task_results' = [i \in 0..(Len(tasks) - 1) |-> NoResult]
    /\ work_q' = <<>>
    /\ running' = {}
    /\ result_q' = <<>>
    /\ in_flight' = 0
    /\ cancelled' = FALSE
    /\ started' = {}
    /\ hlog' = [task_no |-> None, steps |-> <<>>]
    /\ saves' = 0
    /\ finished' = FALSE
    /\ UNCHANGED <<regvars, store, cmp>>

\* go(run_them_all, quit_early, n_parallel, until_task): n_grid_parallel=1
Go(run_them_all, var_run_them_all, quit_early, until_arg, n_parallel, task_idxs) ==
    GoWith(run_them_all, var_run_them_all, quit_early, until_arg, n_parallel,
           1, task_idxs)

(* ------------------------- handling a task result ---------------------- *)
\* self._backend.save(keys, compares); kv maps each key to its compare
save(st, kv) == [o \in Objs |-> IF o \in DOMAIN kv THEN kv[o] ELSE st[o]]

\* pxdeps: the depends of the task that are no task and not in self._depidx
pxdeps(task_no) ==
    {d.obj : d \in {x \in Range(TaskAt(task_no).depends) :
                        ~istask(x) /\ depidx[x.obj] = NoTask}}

\* [list(d.compare()) for d in pxdeps]
compares(keys) == [o \in keys |-> cmp[o]]

\* a slip: the test of result.error is inverted
handler_steps_inverted(result) ==
    IF result.error = <<>>
    THEN <<"set_result", "add_failed", "task_failed">>
    ELSE <<"set_result", "save", "add_completed", "task_completed">>

\* a slip: completed_tasks.add is outside the else branch
handler_steps_always_completed(result) ==
    IF result.error # <<>>
    THEN <<"set_result", "add_failed", "task_failed", "add_completed">>
    ELSE <<"set_result", "save", "add_completed", "task_completed">>

\* a slip: the backend is saved before result.error is looked at
handler_steps_save_on_error(result) ==
    IF result.error # <<>>
    THEN <<"set_result", "save", "add_failed", "task_failed">>
    ELSE <<"set_result", "save", "add_completed", "task_completed">>
         \o (IF pxdeps(result.task_no) # {} THEN <<"save_pxdeps">> ELSE <<>>)

\* a slip: the fingerprints of the result are not saved
handler_steps_no_save(result) ==
    IF result.error # <<>>
    THEN <<"set_result", "add_failed", "task_failed">>
    ELSE <<"set_result", "add_completed", "task_completed">>

\* the statements of _handle_task_result(result) that touch the workflow,
\* the backend or the reporter, in the order of the code
handler_steps(result) ==
    IF result.error # <<>>
    THEN <<"set_result", "add_failed", "task_failed">>
    ELSE <<"set_result", "save", "add_completed", "task_completed">>
         \o (IF pxdeps(result.task_no) # {} THEN <<"save_pxdeps">> ELSE <<>>)

\* the backend after one statement of the handler
step_store(st, step, result) ==
    IF step = "save" THEN save(st, result.deps)
    ELSE IF step = "save_pxdeps" THEN save(st, compares(pxdeps(result.task_no)))
    ELSE st

RECURSIVE steps_store(_, _, _)
steps_store(st, steps, result) ==
    IF steps = <<>> THEN st
    ELSE steps_store(step_store(st, Head(steps), result), Tail(steps), result)

\* the calls of self._backend.save among the statements
save_calls(steps) ==
    Cardinality({i \in DOMAIN steps : steps[i] \in {"save", "save_pxdeps"}})

\* _handle_task_result(result)
_handle_task_result(result) ==
    LET steps == handler_steps(result)
    IN  /\ task_results' = IF "set_result" \in Range(steps)
                           THEN [task_results EXCEPT ![result.task_no] = result]
                           ELSE task_results
        /\ failed_tasks' = IF "add_failed" \in Range(steps)
                           THEN failed_tasks \cup {result.task_no}
                           ELSE failed_tasks
        /\ completed_tasks' = IF "add_completed" \in Range(steps)
                              THEN completed_tasks \cup {result.task_no}
                              ELSE completed_tasks
        /\ store' = steps_store(store, steps, result)
        /\ saves' = saves + save_calls(steps)
        /\ hlog' = [task_no |-> result.task_no, steps |-> steps]

\* a slip: RunFailed is raised whether or not a task failed
_handle_finished_always_raises ==
    /\ finished' = TRUE
    /\ pc' = "RunFailed"

\* _handle_finished(): reporter.finished(), then RunFailed if a task failed
_handle_finished ==
    /\ finished' = TRUE
    /\ pc' = IF failed_tasks # {} THEN "RunFailed" ELSE "returned"

(* ------------------------------ the runner ----------------------------- *)
\* a TaskResult(task_no, error, dep_keys, dep_compares); deps maps each of
\* dep_keys to its entry of dep_compares
TaskResult(task_no, error, deps) ==
    [task_no |-> task_no, error |-> error, deps |-> deps]

\* the result the dispatcher makes up for a task with a failed parent
parent_failed_result(idx, parent) ==
    TaskResult(idx, <<"parent task", ToString(parent), "failed">>, <<>>)

\* the next task of the deque: the runner takes tasks from the right end,
\* where the reverse topological order has a task's parents
next_task == pending[Len(pending)]

\* all parents of the next task have finished
next_ready ==
    /\ ~cancelled
    /\ pending # <<>>
    /\ predecessors(next_task) \subseteq completed_tasks \cup failed_tasks

\* the pool a task is routed to: that of its route, or the default pool
pool_of(t) ==
    IF t \in opts.runner.routes THEN "grid" ELSE opts.runner.default

\* the tasks submitted to a pool whose results are not handled yet
in_pool(pool) ==
    {t \in Range(work_q) \cup running
           \cup {result_q[i].task_no : i \in DOMAIN result_q} :
        t \in started \cup Range(work_q) /\ pool_of(t) = pool}

\* the dispatcher can take the next task: to post a parent-failed result, or
\* to submit it to its pool, which must have room
can_dispatch ==
    /\ next_ready
    /\ \/ predecessors(next_task) \cap failed_tasks # {}
       \/ Cardinality(in_pool(pool_of(next_task)))
              < opts.runner.rate[pool_of(next_task)]

\* the dispatcher pops the next task and posts a parent-failed result for it
DispatchParentFailed ==
    /\ pc = "running"
    /\ can_dispatch
    /\ predecessors(next_task) \cap failed_tasks # {}
    /\ \E k \in predecessors(next_task) \cap failed_tasks :
          result_q' = Append(result_q, parent_failed_result(next_task, k))
    /\ pending' = SubSeq(pending, 1, Len(pending) - 1)
    /\ UNCHANGED <<regvars, store, cmp, pc, opts, completed_tasks, failed_tasks,
                   task_results, skipped, work_q, running, in_flight, cancelled,
                   started, hlog, saves, handed, finished>>

\* the dispatcher pops the next task and submits it to the work queue
Dispatch ==
    /\ pc = "running"
    /\ can_dispatch
    /\ predecessors(next_task) \cap failed_tasks = {}
    /\ work_q' = Append(work_q, next_task)
    /\ in_flight' = in_flight + 1
    /\ pending' = SubSeq(pending, 1, Len(pending) - 1)
    /\ UNCHANGED <<regvars, store, cmp, pc, opts, completed_tasks, failed_tasks,
                   task_results, skipped, running, result_q, cancelled,
                   started, hlog, saves, handed, finished>>

\* a worker takes the first task of the work queue and starts its actions
WorkerStart ==
    /\ pc = "running"
    /\ work_q # <<>>
    /\ running' = running \cup {Head(work_q)}
    /\ started' = started \cup {Head(work_q)}
    /\ work_q' = Tail(work_q)
    /\ UNCHANGED <<regvars, store, cmp, pc, opts, completed_tasks, failed_tasks,
                   task_results, skipped, pending, result_q, in_flight,
                   cancelled, hlog, saves, handed, finished>>

\* a new compare() for a tracked object the actions have written
written(c) == (c + 1) % (MaxCmp + 1)

\* the worker's actions succeed: whether they change the targets is up to
\* the actions; the result carries compare() of all depends and targets
WorkerSucceed(t, writes) ==
    /\ pc = "running"
    /\ t \in running
    /\ running' = running \ {t}
    /\ cmp' = [o \in Objs |-> IF writes /\ o \in TaskAt(t).targets
                              THEN written(cmp[o]) ELSE cmp[o]]
    /\ result_q' = Append(result_q,
           TaskResult(t, <<>>, [o \in tracked_objects(TaskAt(t)) |-> cmp'[o]]))
    /\ UNCHANGED <<regvars, store, pc, opts, completed_tasks, failed_tasks,
                   task_results, skipped, pending, work_q, in_flight, cancelled,
                   started, hlog, saves, handed, finished>>

\* an action of the task raises or exits non-zero, or a target is missing
WorkerFail(t) ==
    /\ pc = "running"
    /\ t \in running
    /\ running' = running \ {t}
    /\ result_q' = Append(result_q, TaskResult(t, <<"action failed">>, <<>>))
    /\ UNCHANGED <<regvars, store, cmp, pc, opts, completed_tasks, failed_tasks,
                   task_results, skipped, pending, work_q, in_flight, cancelled,
                   started, hlog, saves, handed, finished>>

\* the dispatcher, with nothing to dispatch, takes a result from the result
\* queue and handles it; quit_early stops the dispatch after a failure
HandleResult ==
    /\ pc = "running"
    /\ ~can_dispatch
    /\ result_q # <<>>
    /\ LET result == Head(result_q)
       IN  /\ _handle_task_result(result)
           /\ in_flight' = IF result.task_no \in started
                           THEN in_flight - 1 ELSE in_flight
           /\ cancelled' = (cancelled \/ (opts.quit_early /\ result.error # <<>>))
    /\ result_q' = Tail(result_q)
    /\ UNCHANGED <<regvars, cmp, pc, opts, skipped, pending, work_q, running,
                   started, handed, finished>>

\* run_tasks returns when no task is left to dispatch and none is in flight;
\* go then calls _handle_finished
Finish ==
    /\ pc = "running"
    /\ pending = <<>> \/ cancelled
    /\ in_flight = 0
    /\ result_q = <<>>
    /\ _handle_finished
    /\ UNCHANGED <<regvars, store, cmp, opts, completed_tasks, failed_tasks,
                   task_results, skipped, pending, work_q, running, result_q,
                   in_flight, cancelled, started, hlog, saves, handed>>

(* --------------------------- the specification ------------------------- *)
\* Workflow(storage_backend=None, strict=st): the backend is durable, so
\* it holds what earlier processes saved; here a tracked object of warm has
\* its current compare() in the backend and the others have no entry
InitOf(st, warm) ==
    /\ strict = st
    /\ task_data = {}
    /\ tasks = <<>>
    /\ task_counter = 0
    /\ dag_nodes = {}
    /\ dag_edges = {}
    /\ depidx = [o \in Objs |-> NoTask]
    /\ reg_error = NoError
    /\ cmp = [o \in Objs |-> 0]
    /\ store = [o \in Objs |-> IF o \in warm THEN cmp[o] ELSE Absent]
    /\ pc = "reg"
    /\ opts = [run_them_all |-> FALSE, var_run_them_all |-> FALSE,
               quit_early |-> FALSE, until_arg |-> None, n_parallel |-> 1,
               n_grid_parallel |-> 1, runner |-> runner(1, 1)]
    /\ completed_tasks = {}
    /\ failed_tasks = {}
    /\ task_results = <<>>
    /\ skipped = {}
    /\ pending = <<>>
    /\ work_q = <<>>
    /\ running = {}
    /\ result_q = <<>>
    /\ in_flight = 0
    /\ cancelled = FALSE
    /\ started = {}
    /\ hlog = [task_no |-> None, steps |-> <<>>]
    /\ saves = 0
    /\ handed = {}
    /\ finished = FALSE
    /\ grid_pc = "idle"
    /\ resubmission = 0
    /\ tries = 0
    /\ time = 0
    /\ memory = 0
    /\ cores = 0
    /\ jobid = "none"
    /\ job_final_status = "none"
    /\ grid_result = [error |-> <<>>]
    /\ submissions = <<>>
    /\ job_log = <<>>
    /\ return_code = ""
    /\ produced = FALSE
    /\ polls = [task |-> 0, job |-> 0]
    /\ benchmarks = 0
    /\ lock_submit = "free"
    /\ worker_pc = [w \in {"w1", "w2"} |-> "idle"]
    /\ now = 0
    /\ wake = 0
    /\ last_submitted = -1
    /\ submit_gap = -1
    /\ lock_status = "free"
    /\ last_check = 0
    /\ sacct = -1
    /\ outcomes = <<>>
    /\ status_call = [worker |-> "none", refresh |-> FALSE, had |-> FALSE,
                      age |-> 0, queried |-> FALSE, returned |-> -1]
    /\ last_query = -1
    /\ job = [state |-> "none", listed |-> FALSE, rc |-> ""]
    /\ cached = [status |-> "none", age |-> 0]

\* Workflow(): strict defaults to False
InitWith(warm) == InitOf(FALSE, warm)

\* grid_add_task(depends, targets, name) used as a decorator: the function
\* it returns calls add_task([fn], ...), which adds the task, and then
\* _add_task(t) with the task add_task returned
grid_add_task(w, name, depends, targets, exist) ==
    LET w1 == add_task(w, name, depends, targets, exist)
    IN  IF w1.raised # NoError THEN w1
        ELSE _add_task(w1, _build_name(name, w.counter), depends,
                       _build_targets(targets).ret, w.counter, exist)

\* a call of add_task(depends=depends, targets=targets, name=name) while the
\* tracked objects in exist are there, in a script of at most max such
\* calls; an exception of add_task that is not caught ends the script
AddTaskCall(name, depends, targets, exist, max) ==
    /\ pc = "reg"
    /\ reg_error = NoError
    /\ task_counter < max
    /\ LET w == add_task(RegState, name, depends, targets, exist)
       IN  /\ tasks' = w.tasks
           /\ task_counter' = w.counter
           /\ dag_nodes' = w.nodes
           /\ dag_edges' = w.edges
           /\ depidx' = w.depidx
           /\ reg_error' = w.raised
    /\ UNCHANGED <<confvars, store, cmp, runvars>>

\* a call of add_task without a name whose targets targs are tracked objects
AddTask(deps, targs, exist, max) ==
    AddTaskCall(NoName, deps, {ObjDep(o) : o \in targs}, exist, max)

\* the registered tasks, as entries of a depends list
TaskDeps == {TaskDep(tasks[i].task_no) : i \in DOMAIN tasks}

\* the lists of the members of a set S of depends entries, in the order of
\* the task numbers
RECURSIVE sorted(_)
sorted(S) ==
    IF S = {} THEN <<>>
    ELSE LET d == CHOOSE x \in S : \A y \in S : x.task <= y.task
         IN  <<d>> \o sorted(S \ {d})

\* the script calls go once, after the registration
CallGo(run_them_all, var_run_them_all, quit_early, until_arg, n_parallel) ==
    /\ reg_error = NoError
    /\ tasks # <<>>
    /\ \E task_idxs \in topological_sort_reverse :
          Go(run_them_all, var_run_them_all, quit_early, until_arg,
             n_parallel, task_idxs)

WorkerFinish ==
    \E t \in running :
        \/ \E writes \in BOOLEAN : WorkerSucceed(t, writes)
        \/ WorkerFail(t)

(* Spec: workflows of tasks that depend on any of the tasks before them and *)
(* may produce the file f, run once with any quit_early, until_task and    *)
(* n_parallel.                                                             *)
Init == \E warm \in {{}, {"f"}} : InitWith(warm)

Register ==
    \E deps \in {sorted(S) : S \in SUBSET TaskDeps}, targs \in {{}, {"f"}} :
        AddTask(deps, targs, {}, MaxTasks)

Run ==
    \E quit_early \in BOOLEAN, until_arg \in {None} \cup (0..(Len(tasks) - 1)),
       n_parallel \in 1..MaxParallel :
        CallGo(FALSE, FALSE, quit_early, until_arg, n_parallel)

Next ==
    \/ Register
    \/ Run
    \/ DispatchParentFailed
    \/ Dispatch
    \/ WorkerStart
    \/ WorkerFinish
    \/ HandleResult
    \/ Finish

Spec == Init /\ [][Next]_vars

\* the dispatcher and the worker threads keep running, and the actions of a
\* task end; the script is under no obligation to register or to call go
Fairness ==
    /\ WF_vars(DispatchParentFailed)
    /\ WF_vars(Dispatch)
    /\ WF_vars(WorkerStart)
    /\ WF_vars(WorkerFinish)
    /\ WF_vars(HandleResult)
    /\ WF_vars(Finish)

FairSpec == Spec /\ Fairness

(* SpecFp: workflows of tasks with tracked files and variables among their *)
(* depends and targets, run once over a backend that holds the             *)
(* fingerprints of some of them.                                           *)
InitFp == \E warm \in SUBSET {"f", "v"} : InitWith(warm)

RegisterFp ==
    \E ts \in {<<>>} \cup {<<d>> : d \in TaskDeps},
       os \in {<<>>} \cup {<<ObjDep(o)>> : o \in {"f", "v"}},
       targs \in {{}, {"f"}}, exist \in {{}, {"f"}} :
        AddTask(ts \o os, targs, exist, MaxFpTasks)

RunFp ==
    \E run_them_all \in BOOLEAN, n_parallel \in 1..MaxParallel :
        CallGo(run_them_all, run_them_all, FALSE, None, n_parallel)

NextFp ==
    \/ RegisterFp
    \/ RunFp
    \/ DispatchParentFailed
    \/ Dispatch
    \/ WorkerStart
    \/ WorkerFinish
    \/ HandleResult
    \/ Finish

SpecFp == InitFp /\ [][NextFp]_vars

(* SpecRe: the workflows of SpecFp, run any number of times by a script    *)
(* that registers all its tasks before the first go and asks for           *)
(* run_them_all by the argument of go, by the configuration, or by both.   *)
\* the script calls go again after go has returned, or after it has caught
\* RunFailed
Again ==
    /\ pc \in {"returned", "RunFailed"}
    /\ pc' = "reg"
    /\ UNCHANGED <<regvars, store, cmp, opts, completed_tasks, failed_tasks,
                   task_results, skipped, pending, work_q, running, result_q,
                   in_flight, cancelled, started, hlog, saves, handed, finished>>

\* no go has ended yet: finished is reset by go and set at the end of a run
RegisterRe == ~finished /\ RegisterFp

RunRe ==
    \E run_them_all \in BOOLEAN, var_run_them_all \in BOOLEAN,
       n_parallel \in 1..MaxParallel :
        CallGo(run_them_all, var_run_them_all, FALSE, None, n_parallel)

NextRe ==
    \/ RegisterRe
    \/ RunRe
    \/ DispatchParentFailed
    \/ Dispatch
    \/ WorkerStart
    \/ WorkerFinish
    \/ HandleResult
    \/ Finish
    \/ Again

SpecRe == InitFp /\ [][NextRe]_vars

(* SpecMod: SpecRe with an environment that modifies tracked objects        *)
(* between the runs.                                                       *)
\* between two runs something outside the workflow changes tracked object o
Modify(o) ==
    /\ pc = "reg"
    /\ finished
    /\ cmp' = [cmp EXCEPT ![o] = written(@)]
    /\ UNCHANGED <<regvars, store, runvars>>

ModifyAny == \E o \in {"f", "v"} : Modify(o)

NextMod ==
    \/ RegisterRe
    \/ RunRe
    \/ DispatchParentFailed
    \/ Dispatch
    \/ WorkerStart
    \/ WorkerFinish
    \/ HandleResult
    \/ Finish
    \/ Again
    \/ ModifyAny

SpecMod == InitFp /\ [][NextMod]_vars

(* SpecReg: registration scripts that name tasks, list tracked files and    *)
(* tasks among depends and targets, declare files as pre-existing, and go  *)
(* on after an exception of add_task.                                      *)
\* a call of already_exists(dep) by the script
AlreadyExistsCall(dep, max) ==
    /\ pc = "reg"
    /\ reg_error = NoError
    /\ task_counter < max
    /\ LET w == already_exists(RegState, dep)
       IN  /\ tasks' = w.tasks
           /\ task_counter' = w.counter
           /\ dag_nodes' = w.nodes
           /\ dag_edges' = w.edges
           /\ depidx' = w.depidx
    /\ UNCHANGED <<confvars, reg_error, store, cmp, runvars>>

\* the script decorates a function with grid_add_task(depends=depends,
\* targets=targets, name=name)
GridAddTaskCall(name, depends, targets, exist, max) ==
    /\ pc = "reg"
    /\ reg_error = NoError
    /\ task_counter < max
    /\ LET w == grid_add_task(RegState, name, depends, targets, exist)
       IN  /\ tasks' = w.tasks
           /\ task_counter' = w.counter
           /\ dag_nodes' = w.nodes
           /\ dag_edges' = w.edges
           /\ depidx' = w.depidx
           /\ reg_error' = w.raised
           /\ task_data' = IF w.raised = NoError
                           THEN task_data \cup {task_counter} ELSE task_data
    /\ UNCHANGED <<strict, gridvars, queuevars, clientvars, monitorvars, store,
                   cmp, runvars>>

\* the script catches the exception of add_task and goes on
Catch ==
    /\ pc = "reg"
    /\ reg_error # NoError
    /\ reg_error' = NoError
    /\ UNCHANGED <<confvars, tasks, task_counter, dag_nodes, dag_edges, depidx,
                   store, cmp, runvars>>

\* the depends lists of at most n entries over the entries in S
RECURSIVE lists(_, _)
lists(S, n) ==
    IF n = 0 THEN {<<>>}
    ELSE lists(S, n - 1) \cup {Append(l, d) : l \in lists(S, n - 1), d \in S}

RegisterReg ==
    \E name \in {NoName, "should fail"},
       depends \in lists(TaskDeps \cup {ObjDep("f"), ObjDep("g")}, MaxRegDeps),
       targets \in SUBSET ({ObjDep("f")} \cup TaskDeps),
       exist \in SUBSET {"f"} :
        AddTaskCall(name, depends, targets, exist, MaxRegTasks)

GridRegisterReg ==
    \E depends \in lists({ObjDep("f"), ObjDep("g")}, 1),
       targets \in SUBSET {ObjDep("f")}, exist \in SUBSET {"f"} :
        GridAddTaskCall(NoName, depends, targets, exist, MaxRegTasks)

DeclareReg == \E dep \in {"f", "g"} : AlreadyExistsCall(dep, MaxRegTasks)

NextReg ==
    \/ RegisterReg
    \/ DeclareReg
    \/ Catch

SpecReg == InitWith({}) /\ [][NextReg]_vars

(* SpecGrid: the registration scripts of SpecReg, which also decorate      *)
(* functions with grid_add_task.                                           *)
NextGrid ==
    \/ RegisterReg
    \/ GridRegisterReg
    \/ DeclareReg
    \/ Catch

SpecGrid == InitWith({}) /\ [][NextGrid]_vars

(* SpecStrict: registration scripts on a workflow made with strict=True or *)
(* strict=False, where any of the files f and g may exist.                *)
InitStrict == \E st \in BOOLEAN : InitOf(st, {})

RegisterStrict ==
    \E depends \in lists(TaskDeps \cup {ObjDep("f"), ObjDep("g")}, MaxRegDeps),
       targets \in SUBSET {ObjDep("f")}, exist \in SUBSET {"f", "g"} :
        AddTaskCall(NoName, depends, targets, exist, MaxRegTasks)

NextStrict ==
    \/ RegisterStrict
    \/ DeclareReg
    \/ Catch

SpecStrict == InitStrict /\ [][NextStrict]_vars

(* SpecPools: workflows of independent tasks, registered with add_task or  *)
(* with grid_add_task, run once with any n_parallel and n_grid_parallel.   *)
MaxPoolTasks == 3

\* grid_add_task(actions, time=..., mem=..., cores=...): add_task, and then
\* grid_powerup.add_task(t) files the task's number in task_data
GridAddTask(deps, targs, exist, max) ==
    /\ pc = "reg"
    /\ reg_error = NoError
    /\ task_counter < max
    /\ LET w == add_task(RegState, NoName, deps, {ObjDep(o) : o \in targs}, exist)
       IN  /\ tasks' = w.tasks
           /\ task_counter' = w.counter
           /\ dag_nodes' = w.nodes
           /\ dag_edges' = w.edges
           /\ depidx' = w.depidx
           /\ reg_error' = w.raised
           /\ task_data' = IF w.raised = NoError
                           THEN task_data \cup {task_counter} ELSE task_data
    /\ UNCHANGED <<strict, gridvars, queuevars, clientvars, monitorvars, store,
                   cmp, runvars>>

RegisterLocal == AddTask(<<>>, {}, {}, MaxPoolTasks)

RegisterGrid == GridAddTask(<<>>, {}, {}, MaxPoolTasks)

RunPools ==
    \E n_parallel \in 1..MaxParallel, n_grid_parallel \in 1..MaxParallel :
        /\ reg_error = NoError
        /\ tasks # <<>>
        /\ \E task_idxs \in topological_sort_reverse :
              GoWith(FALSE, FALSE, FALSE, None, n_parallel, n_grid_parallel,
                     task_idxs)

NextPools ==
    \/ RegisterLocal
    \/ RegisterGrid
    \/ RunPools
    \/ Dispatch
    \/ WorkerStart
    \/ WorkerFinish
    \/ HandleResult
    \/ Finish

SpecPools == InitWith({}) /\ [][NextPools]_vars

(* ---------------------------- the grid workers ------------------------- *)
\* the longest run of polls in which a job is still pending or running
MaxPolls == 2

\* the most srun calls the scheduler answers with a limit exceeded
MaxTries == 5

\* a Python float is held as an integer number of hundredths
Fixed == 100

\* the scheduler's status codes and the predicates of the grid queue
all_failed_codes == {"FAILED", "TIMEOUT", "MEMKILL"}

all_stopped_codes == {"COMPLETED"} \cup all_failed_codes

job_failed(status) == status \in all_failed_codes

job_stopped(status) == status \in all_stopped_codes

job_memkill(status) == status = "MEMKILL"

job_timeout(status) == status = "TIMEOUT"

\* what get_job_status can return
Statuses == {"Waiting", "RUNNING"} \cup all_stopped_codes

\* the output of the submit command, as stdout.rstrip().split() has it
Stdouts ==
    {<<"Submitted", "batch", "job", "42">>,
     <<"sbatch:", "error:", "Batch", "job", "submission", "failed">>, <<>>}

\* str.isdigit() on the words above
isdigit(word) == word \in {"42"}

\* job_submission_failed(jobid)
job_submission_failed(id) == ~isdigit(id)

\* submit_job: jobid=stdout.rstrip().split()[-1], "error" on IndexError
jobid_of(stdout) == IF stdout = <<>> THEN "error" ELSE stdout[Len(stdout)]

\* runners._get_task_result(task): the error is None when the targets exist
_get_task_result(targets_exist) ==
    [error |-> IF targets_exist THEN <<>> ELSE <<"Failed to produce target">>]

\* result._replace(error=str(result.error)+extra): str(None) is "None"
replace_error(result, extra) ==
    [error |-> (IF result.error = <<>> THEN <<"None">> ELSE result.error) \o extra]

\* a slip: a timed out job is resubmitted with the same time
escalated_time_same(t) == t

\* time = time * 2
escalated_time(t) == t * 2

\* the condition of the while loop of run_task_command
resubmits(status, n) == (job_timeout(status) \/ job_memkill(status)) /\ n < 3

\* a slip: a failed submission is monitored like a submitted job
monitors_always(id) == TRUE

\* check_submission_then_monitor_grid_job: the job is monitored if the
\* submission was successful
monitors(id) == ~job_submission_failed(id)

\* a slip: the grid status error is left out
status_error_none(status) == <<>>

\* monitor_grid_job: extra_error+="\nGrid Status Error: " + grid_job_status
status_error(status) ==
    IF job_failed(status) THEN <<"Grid Status Error: " \o status>> ELSE <<>>

\* a slip: a return code of 0 is reported as an error too
return_code_error_on_zero(rc) ==
    IF rc # "" THEN <<"Return Code Error: " \o rc>> ELSE <<>>

\* monitor_grid_job: if return_code and not return_code == "0":
\* extra_error="\nReturn Code Error: " + return_code
return_code_error(rc) ==
    IF rc # "" /\ rc # "0" THEN <<"Return Code Error: " \o rc>> ELSE <<>>

\* a job of the task: the id submit_job got for it and the status its
\* monitoring ended with
Job(id, status) == [jobid |-> id, status |-> status]

\* run_task_command(task, extra) up to the first submission: the worker has
\* taken a task with the requests perf from the work queue
RunTaskCommand(perf) ==
    /\ grid_pc = "idle"
    /\ grid_pc' = "submit"
    /\ resubmission' = 0
    /\ cores' = perf.cores
    /\ time' = perf.time
    /\ memory' = perf.mem
    /\ UNCHANGED <<workflowvars, tries, jobid, job_final_status, grid_result,
                   submissions, job_log, return_code, produced, polls, benchmarks>>

\* submit_grid_job, and check_submission_then_monitor_grid_job up to the
\* call of monitor_grid_job: the scheduler's client prints stdout
SubmitGridJob(stdout, targets_exist) ==
    /\ grid_pc = "submit"
    /\ LET id == jobid_of(stdout)
       IN  /\ jobid' = id
           /\ submissions' = Append(submissions,
                  [time |-> time, memory |-> memory, cores |-> cores])
           /\ IF monitors(id)
              THEN /\ grid_pc' = "monitor"
                   /\ polls' = [polls EXCEPT !.job = 0]
                   /\ job_log' = Append(job_log, Job(id, "none"))
                   /\ UNCHANGED produced
                   /\ UNCHANGED <<job_final_status, grid_result>>
              ELSE /\ grid_pc' = "loop"
                   /\ job_final_status' = "SUBMIT FAILED"
                   /\ job_log' = Append(job_log, Job(id, "SUBMIT FAILED"))
                   /\ produced' = targets_exist
                   /\ grid_result' = replace_error(_get_task_result(targets_exist),
                                         <<"Unable to submit job to queue.">>)
                   /\ UNCHANGED polls
    /\ UNCHANGED <<workflowvars, resubmission, tries, time, memory, cores,
                   return_code, benchmarks>>

\* monitor_grid_job: one poll of the job's status, and the rest of the
\* function when the poll finds the job stopped or the return code written;
\* rc is the content of the return code file, stderr_status what the job's
\* standard error says about its end
PollGridJob(status, rc, stderr_status, targets_exist) ==
    /\ grid_pc = "monitor"
    /\ polls.job + 1 < MaxPolls \/ job_stopped(status) \/ rc # ""
    /\ polls' = [task |-> polls.task + 1, job |-> polls.job + 1]
    /\ IF job_stopped(status) \/ rc # ""
       THEN LET grid_job_status == IF stderr_status = "none" THEN status
                                   ELSE stderr_status
                extra_error ==
                    return_code_error(rc) \o status_error(grid_job_status)
                result == _get_task_result(targets_exist)
            IN  /\ grid_result' = IF extra_error # <<>>
                                  THEN replace_error(result, extra_error)
                                  ELSE result
                /\ job_final_status' = grid_job_status
                /\ job_log' = [job_log EXCEPT ![Len(job_log)] =
                                   Job(jobid, grid_job_status)]
                /\ return_code' = rc
                /\ produced' = targets_exist
                /\ grid_pc' = "loop"
       ELSE UNCHANGED <<grid_pc, grid_result, job_final_status, job_log,
                        return_code, produced>>
    /\ UNCHANGED <<workflowvars, resubmission, tries, time, memory, cores,
                   jobid, submissions, benchmarks>>

\* run_task_command: the body of the while loop up to the submission, for
\* which create_grid_script makes new, empty files
Resubmit ==
    /\ grid_pc = "loop"
    /\ resubmits(job_final_status, resubmission)
    /\ resubmission' = resubmission + 1
    /\ IF job_timeout(job_final_status)
       THEN time' = escalated_time(time) /\ UNCHANGED memory
       ELSE memory' = memory * 2 /\ UNCHANGED time
    /\ return_code' = ""
    /\ produced' = FALSE
    /\ grid_pc' = "submit"
    /\ UNCHANGED <<workflowvars, tries, cores, jobid, job_final_status,
                   grid_result, submissions, job_log, polls, benchmarks>>

\* run_task_command: the loop is left, the benchmark is recorded if the job
\* was submitted, and the result is returned
ReturnResult ==
    /\ grid_pc = "loop"
    /\ ~resubmits(job_final_status, resubmission)
    /\ benchmarks' = IF ~job_submission_failed(jobid) THEN benchmarks + 1
                     ELSE benchmarks
    /\ grid_pc' = "returned"
    /\ UNCHANGED <<workflowvars, resubmission, tries, time, memory, cores,
                   jobid, job_final_status, grid_result, submissions, job_log,
                   return_code, produced, polls>>

\* e^(-n/10.) in millionths, by its series 1 - x + x^2/2 - ... from the
\* term k on, which is term
RECURSIVE exp_series(_, _, _)
exp_series(n, k, term) ==
    IF term = 0 THEN 0
    ELSE LET next == (term * n) \div (10 * (k + 1))
         IN  term - exp_series(n, k + 1, next)

\* sigmoid = lambda t: 1/(1-exp(-t)), at t = tries/10., in hundredths
sigmoid(n) == (Fixed * 1000000) \div (1000000 - exp_series(n, 0, 1000000))

\* a * f for a and f in hundredths
times(a, f) == (a \div Fixed) * f + ((a % Fixed) * f) \div Fixed

\* time = time * (sigmoid(tries/10.)*2.7)
slurm_time(t, n) == times(t, (sigmoid(n) * 27) \div 10)

\* mem = int(used)/1024 * 1.3
slurm_mem(used) == ((used \div 1024) * 13 * Fixed) \div 10

\* what srun can answer: its output shows a memory limit exceeded (with the
\* KB used), a time limit exceeded, a result that decodes or not, and the
\* error of the decoded result; returncode is its exit status
SrunAnswers ==
    [memkill : BOOLEAN, used : {2048}, timeout : BOOLEAN, decodes : BOOLEAN,
     error : {<<>>, <<"action failed">>}, returncode : {0, 1}]

\* _run_task_slurm(task, extra) up to the first srun
RunTaskSlurm(perf) ==
    /\ grid_pc = "idle"
    /\ grid_pc' = "srun"
    /\ tries' = 1
    /\ cores' = perf.cores
    /\ time' = perf.time * Fixed
    /\ memory' = perf.mem * Fixed
    /\ UNCHANGED <<workflowvars, resubmission, jobid, job_final_status,
                   grid_result, submissions, job_log, return_code, produced,
                   polls, benchmarks>>

\* _run_task_slurm: one pass of the loop, and the rest of the function when
\* the job is not run again; the scheduler stops exceeding limits after
\* MaxTries calls
Srun(answer) ==
    /\ grid_pc = "srun"
    /\ (answer.memkill \/ answer.timeout) => tries < MaxTries
    /\ submissions' = Append(submissions,
           [time |-> time \div Fixed, memory |-> memory \div Fixed,
            cores |-> cores])
    /\ memory' = IF answer.memkill THEN slurm_mem(answer.used) ELSE memory
    /\ time' = IF answer.timeout THEN slurm_time(time, tries) ELSE time
    /\ IF answer.memkill \/ answer.timeout
       THEN /\ tries' = tries + 1
            /\ UNCHANGED <<grid_pc, grid_result>>
       ELSE LET extra_error ==
                    (IF answer.decodes THEN <<>>
                     ELSE <<"Unable to decode task result">>)
                    \o (IF answer.returncode # 0 THEN <<"Srun error">> ELSE <<>>)
            IN  /\ grid_result' = [error |-> IF answer.decodes
                                             THEN answer.error \o extra_error
                                             ELSE extra_error]
                /\ grid_pc' = "returned"
                /\ UNCHANGED tries
    /\ UNCHANGED <<workflowvars, resubmission, cores, jobid, job_final_status,
                   job_log, return_code, produced, polls, benchmarks>>

(* SpecWorkers: a grid worker, of the generic kind or of the SLURM kind,   *)
(* runs one task against a scheduler that may answer anything.             *)
Perfs == [time : {1, 3}, mem : {1}, cores : {1}]

RunGrid == \E perf \in Perfs : RunTaskCommand(perf)

Submit == \E stdout \in Stdouts, targets_exist \in BOOLEAN :
              SubmitGridJob(stdout, targets_exist)

Poll == \E status \in Statuses, rc \in {"", "0", "1"},
           stderr_status \in {"none", "TIMEOUT", "MEMKILL"},
           targets_exist \in BOOLEAN :
            PollGridJob(status, rc, stderr_status, targets_exist)

RunSlurm == \E perf \in Perfs : RunTaskSlurm(perf)

SrunAny == \E answer \in SrunAnswers : Srun(answer)

NextWorkers ==
    \/ RunGrid
    \/ Submit
    \/ Poll
    \/ Resubmit
    \/ ReturnResult
    \/ RunSlurm
    \/ SrunAny

SpecWorkers == InitWith({}) /\ [][NextWorkers]_vars

(* ----------------------------- the grid queue -------------------------- *)
\* the clock stops here
MaxClock == 12

\* self.submit_sleep = 5
submit_sleep == 5

\* the grid workers that share the queue
Workers == DOMAIN worker_pc

\* nobody holds the lock
Free == "free"

\* no submit command has returned yet
Never == -1

\* a slip: the pause for the scheduler is left out
sleep_until_now(t, seconds) == t

\* time.sleep(seconds) called at t returns no earlier than t + seconds
sleep_until(t, seconds) == t + seconds

\* submit_job: self.lock_submit.acquire() returns for the worker w, which
\* starts the submit command
Acquire(w) ==
    /\ worker_pc[w] = "idle"
    /\ lock_submit = Free
    /\ lock_submit' = w
    /\ worker_pc' = [worker_pc EXCEPT ![w] = "command"]
    /\ submit_gap' = IF last_submitted = Never THEN Never
                     ELSE now - last_submitted
    /\ UNCHANGED <<corevars, gridvars, now, wake, last_submitted>>

\* submit_job: the submit command returns, the job id is read, and the
\* worker pauses for the scheduler
CommandReturns(w) ==
    /\ worker_pc[w] = "command"
    /\ last_submitted' = now
    /\ wake' = sleep_until(now, submit_sleep)
    /\ worker_pc' = [worker_pc EXCEPT ![w] = "sleep"]
    /\ UNCHANGED <<corevars, gridvars, lock_submit, now, submit_gap>>

\* submit_job: time.sleep returns, self.lock_submit.release(), return jobid
Release(w) ==
    /\ worker_pc[w] = "sleep"
    /\ now >= wake
    /\ lock_submit' = Free
    /\ worker_pc' = [worker_pc EXCEPT ![w] = "idle"]
    /\ UNCHANGED <<corevars, gridvars, now, wake, last_submitted, submit_gap>>

\* a second passes
Tick ==
    /\ now < MaxClock
    /\ now' = now + 1
    /\ UNCHANGED <<corevars, gridvars, lock_submit, worker_pc, wake,
                   last_submitted, submit_gap>>

(* SpecQueue: two grid workers submit jobs to one grid queue, again and    *)
(* again, while the clock runs.                                            *)
AcquireAny == \E w \in Workers : Acquire(w)

CommandReturnsAny == \E w \in Workers : CommandReturns(w)

ReleaseAny == \E w \in Workers : Release(w)

NextQueue ==
    \/ AcquireAny
    \/ CommandReturnsAny
    \/ ReleaseAny
    \/ Tick

SpecQueue == InitWith({}) /\ [][NextQueue]_vars

(* ------------------------ the grid queue's client ---------------------- *)
\* the clock of the client stops here
MaxWait == 1200

\* self.refresh_rate = 10*60
refresh_rate == 600

\* self.timeout_sleep = 5*60
timeout_sleep == 300

\* self.timeout_retry_max = 3
timeout_retry_max == 3

\* how a scheduler client command can end: it prints its output, it fails
\* with the socket timeout in its output, it fails with another error
\* (CalledProcessError), or subprocess raises something else (OSError when
\* the client is not installed)
Outcomes == {"ok", "timeout", "error", "raise"}

\* a slip: the queue is asked on every call
refreshes_always(current_time, refresh) == TRUE

\* get_queue_status: ( current_time - self.last_check > self.refresh_rate )
\* or refresh or self.sacct is None
refreshes(current_time, refresh) ==
    \/ current_time - last_check > refresh_rate
    \/ refresh
    \/ sacct = None

\* run_grid_command: timeout_error
timeout_error(outcome) == outcome = "timeout"

\* run_grid_command_resubmit: "if timeout_error and resubmissions <
\* self.timeout_retry_max" with resubmissions = 0, evaluated once after the
\* first run of the command
retries(outcome, resubmissions) ==
    timeout_error(outcome) /\ resubmissions < timeout_retry_max

\* get_queue_status(benchmarking, refresh) of the worker w: the lock is
\* acquired and the time read; without a refresh the lock is released and
\* the cached snapshot returned, with one the status query is started
GetQueueStatus(w, refresh) ==
    /\ worker_pc[w] = "idle"
    /\ lock_status = Free
    /\ LET current_time == now
           query == refreshes(current_time, refresh)
       IN  /\ status_call' = [worker |-> w, refresh |-> refresh,
                              had |-> sacct # None,
                              age |-> IF last_query = Never THEN Never
                                      ELSE current_time - last_query,
                              queried |-> query, returned |-> sacct]
           /\ IF query
              THEN /\ last_check' = current_time
                   /\ last_query' = current_time
                   /\ lock_status' = w
                   /\ worker_pc' = [worker_pc EXCEPT ![w] = "query"]
              ELSE UNCHANGED <<last_check, last_query, lock_status, worker_pc>>
    /\ UNCHANGED <<strict, task_data, tasks, task_counter, dag_nodes, dag_edges,
                   depidx, reg_error, store, cmp, runvars, gridvars, monitorvars,
                   lock_submit, now, wake, last_submitted, submit_gap,
                   sacct, outcomes>>

\* get_queue_status: refresh_queue_status returns the snapshot taken now,
\* self.lock_status.release(), return self.sacct
RefreshReturns(w) ==
    /\ worker_pc[w] = "query"
    /\ sacct' = now
    /\ status_call' = [status_call EXCEPT !.returned = now]
    /\ lock_status' = Free
    /\ worker_pc' = [worker_pc EXCEPT ![w] = "idle"]
    /\ UNCHANGED <<strict, task_data, tasks, task_counter, dag_nodes, dag_edges,
                   depidx, reg_error, store, cmp, runvars, gridvars, monitorvars,
                   lock_submit, now, wake, last_submitted, submit_gap,
                   last_check, outcomes, last_query>>

\* get_queue_status: refresh_queue_status raises, and the exception leaves
\* get_queue_status at line 206
RefreshRaises(w) ==
    /\ worker_pc[w] = "query"
    /\ worker_pc' = [worker_pc EXCEPT ![w] = "raised"]
    /\ UNCHANGED <<strict, task_data, tasks, task_counter, dag_nodes, dag_edges,
                   depidx, reg_error, store, cmp, runvars, gridvars, monitorvars,
                   lock_submit, now, wake, last_submitted, submit_gap,
                   lock_status, last_check, sacct, outcomes, status_call,
                   last_query>>

\* submit_job up to the pause for the scheduler: run_grid_command_resubmit
\* runs the submit command, which ends with outcome; after the first run it
\* waits and runs it again if the condition of its if holds
RunGridCommand(w, outcome) ==
    /\ worker_pc[w] \in {"command", "recommand"}
    /\ lock_submit = w
    /\ outcomes' = IF worker_pc[w] = "command" THEN <<outcome>>
                   ELSE Append(outcomes, outcome)
    /\ IF outcome = "raise"
       THEN /\ worker_pc' = [worker_pc EXCEPT ![w] = "raised"]
            /\ UNCHANGED <<wake, last_submitted>>
       ELSE IF worker_pc[w] = "command" /\ retries(outcome, 0)
       THEN /\ worker_pc' = [worker_pc EXCEPT ![w] = "timeout_sleep"]
            /\ wake' = sleep_until(now, timeout_sleep)
            /\ UNCHANGED last_submitted
       ELSE /\ worker_pc' = [worker_pc EXCEPT ![w] = "sleep"]
            /\ wake' = sleep_until(now, submit_sleep)
            /\ last_submitted' = now
    /\ UNCHANGED <<strict, task_data, tasks, task_counter, dag_nodes, dag_edges,
                   depidx, reg_error, store, cmp, runvars, gridvars, monitorvars,
                   lock_submit, now, submit_gap, lock_status, last_check,
                   sacct, status_call, last_query>>

\* run_grid_command_resubmit: time.sleep(self.timeout_sleep) returns
Retry(w) ==
    /\ worker_pc[w] = "timeout_sleep"
    /\ now >= wake
    /\ worker_pc' = [worker_pc EXCEPT ![w] = "recommand"]
    /\ UNCHANGED <<corevars, gridvars, lock_submit, now, wake, last_submitted,
                   submit_gap>>

\* time passes: to the end of the current sleep, or timeout_sleep seconds
Elapse(seconds) ==
    /\ now + seconds <= MaxWait
    /\ seconds = wake - now \/ seconds = timeout_sleep
    /\ now' = now + seconds
    /\ UNCHANGED <<corevars, gridvars, lock_submit, worker_pc, wake,
                   last_submitted, submit_gap>>

(* SpecClient: two grid workers submit jobs to one grid queue while the    *)
(* clock runs and the submit command ends in any way. SpecStatus: they ask *)
(* the queue for its status while the clock runs and the status query      *)
(* returns or raises.                                                      *)
GetQueueStatusAny ==
    \E w \in Workers, refresh \in BOOLEAN : GetQueueStatus(w, refresh)

RefreshReturnsAny == \E w \in Workers : RefreshReturns(w)

RefreshRaisesAny == \E w \in Workers : RefreshRaises(w)

RunGridCommandAny ==
    \E w \in Workers, outcome \in Outcomes : RunGridCommand(w, outcome)

RetryAny == \E w \in Workers : Retry(w)

ElapseAny == \E seconds \in 1..timeout_sleep : Elapse(seconds)

NextClient ==
    \/ AcquireAny
    \/ RunGridCommandAny
    \/ RetryAny
    \/ ReleaseAny
    \/ ElapseAny

SpecClient == InitWith({}) /\ [][NextClient]_vars

NextStatus ==
    \/ GetQueueStatusAny
    \/ RefreshReturnsAny
    \/ RefreshRaisesAny
    \/ ElapseAny

SpecStatus == InitWith({}) /\ [][NextStatus]_vars

(* --------------------------- monitoring a job -------------------------- *)
\* self.check_job_rate = 60
check_job_rate == 60

\* seconds since last_check, counted up to the first value past refresh_rate
aged(age, seconds) ==
    IF age + seconds > refresh_rate THEN refresh_rate + check_job_rate
    ELSE age + seconds

\* get_all_stats_for_jobid: a job that the snapshot does not list gets the
\* status "Waiting"
status_or_waiting(entry) == IF entry = "absent" THEN "Waiting" ELSE entry

\* the scheduler has taken the job of the last submission and runs it
JobSubmitted ==
    /\ grid_pc = "monitor"
    /\ job.state = "none"
    /\ job' = [state |-> "RUNNING", listed |-> TRUE, rc |-> ""]
    /\ UNCHANGED <<strict, task_data, tasks, task_counter, dag_nodes, dag_edges,
                   depidx, reg_error, store, cmp, runvars, clientvars, gridvars,
                   queuevars, cached>>

\* the job's script ends and writes its return code file
JobFinishes(rc) ==
    /\ job.state = "RUNNING"
    /\ job' = [job EXCEPT !.state = IF rc = "0" THEN "COMPLETED" ELSE "FAILED",
                          !.rc = rc]
    /\ UNCHANGED <<strict, task_data, tasks, task_counter, dag_nodes, dag_edges,
                   depidx, reg_error, store, cmp, runvars, clientvars, gridvars,
                   queuevars, cached>>

\* the scheduler kills the job for its time or its memory: the script does
\* not get to write the return code file
JobKilled(status) ==
    /\ job.state = "RUNNING"
    /\ job' = [job EXCEPT !.state = status]
    /\ UNCHANGED <<strict, task_data, tasks, task_counter, dag_nodes, dag_edges,
                   depidx, reg_error, store, cmp, runvars, clientvars, gridvars,
                   queuevars, cached>>

\* the scheduler drops the ended job from its listing
JobDropped ==
    /\ job.state \in all_stopped_codes
    /\ job.listed
    /\ job' = [job EXCEPT !.listed = FALSE]
    /\ UNCHANGED <<strict, task_data, tasks, task_counter, dag_nodes, dag_edges,
                   depidx, reg_error, store, cmp, runvars, clientvars, gridvars,
                   queuevars, cached>>

\* monitor_grid_job: one round of the loop against the scheduler, and the
\* rest of the function when the round leaves the loop: sleep
\* check_job_rate, get_job_status (get_queue_status refreshes the snapshot
\* when it is older than refresh_rate or there is none), then the tests of
\* the status and of the return code file
MonitorRound ==
    /\ grid_pc = "monitor"
    /\ job.state # "none"
    /\ LET age == aged(cached.age, check_job_rate)
           refresh == age > refresh_rate \/ cached.status = "none"
           entry == IF ~refresh THEN cached.status
                    ELSE IF job.listed THEN job.state ELSE "absent"
           grid_job_status == status_or_waiting(entry)
       IN  /\ cached' = [status |-> entry, age |-> IF refresh THEN 0 ELSE age]
           /\ IF job_stopped(grid_job_status) \/ job.rc # ""
              THEN LET extra_error == return_code_error(job.rc)
                                          \o status_error(grid_job_status)
                       result == _get_task_result(job.state = "COMPLETED")
                   IN  /\ grid_result' = IF extra_error # <<>>
                                         THEN replace_error(result, extra_error)
                                         ELSE result
                       /\ job_final_status' = grid_job_status
                       /\ job_log' = [job_log EXCEPT ![Len(job_log)] =
                                          Job(jobid, grid_job_status)]
                       /\ return_code' = job.rc
                       /\ produced' = (job.state = "COMPLETED")
                       /\ grid_pc' = "loop"
              ELSE UNCHANGED <<grid_pc, grid_result, job_final_status, job_log,
                               return_code, produced>>
    /\ UNCHANGED <<strict, task_data, tasks, task_counter, dag_nodes, dag_edges,
                   depidx, reg_error, store, cmp, runvars, clientvars,
                   queuevars, resubmission, tries, time, memory, cores, jobid,
                   submissions, polls, benchmarks, job>>

(* SpecMonitor: a grid worker submits the job of a task and monitors it    *)
(* while the scheduler runs the job, ends it in any way and may drop it    *)
(* from its listing. The worker keeps polling (FairMonitor).               *)
JobFinishesAny == \E rc \in {"0", "1"} : JobFinishes(rc)

JobKilledAny == \E status \in {"TIMEOUT", "MEMKILL"} : JobKilled(status)

NextMonitor ==
    \/ RunGrid
    \/ Submit
    \/ JobSubmitted
    \/ JobFinishesAny
    \/ JobKilledAny
    \/ JobDropped
    \/ MonitorRound

SpecMonitor == InitWith({}) /\ [][NextMonitor]_vars

FairMonitor == SpecMonitor /\ WF_vars(MonitorRound)

(* ------------------------------ the claims ----------------------------- *)
\* the task numbers of the task list
TaskNos == 0..(Len(tasks) - 1)

\* the tasks a task waits for: its parents in the dag, and the tasks it
\* lists among its depends
parents_of(b) ==
    predecessors(b) \cup {d.task : d \in {x \in Range(TaskAt(b).depends) : istask(x)}}

\* the run is over: go has returned or raised RunFailed
run_over == pc \in {"returned", "RunFailed"}

\* C1: a task is on the work queue or has started its actions only when every
\* parent of it has finished (is in completed_tasks or failed_tasks) and is
\* itself no longer waiting to start or executing; so a parent that executes
\* has started before its child starts
C1_StartAfterParents ==
    pc = "running" =>
        \A b \in Range(work_q) \cup started : \A a \in parents_of(b) :
            /\ a \in completed_tasks \cup failed_tasks
            /\ a \notin Range(pending) \cup Range(work_q) \cup running

\* C1 witness: a parent and its child have both started their actions
C1_Witness ==
    \E e \in dag_edges : e[1] \in started /\ e[2] \in started

\* the tasks of the run: those go handed to the runner and those it skipped
candidates == handed \cup skipped

\* task d has failed for a failed parent and its actions were never started
failed_for_parent(d) ==
    /\ d \in failed_tasks
    /\ "parent task" \in Range(task_results[d].error)
    /\ d \notin started

\* C2 as claimed: at the end of any run every descendant of a failed task has
\* failed for a failed parent without executing
C2_Original ==
    run_over =>
        \A f \in failed_tasks : \A d \in allchildren(f) : failed_for_parent(d)

\* C2 amended: at the end of a run without quit_early, every descendant of a
\* failed task that is among the tasks of the run (with until_task: the named
\* task and its ancestors) has failed for a failed parent without executing
C2_DescendantsFail ==
    (run_over /\ ~opts.quit_early) =>
        \A f \in failed_tasks : \A d \in allchildren(f) \cap candidates :
            failed_for_parent(d)

\* C2 witness: a run has ended with a failed task that has a child and a
\* grandchild
C2_Witness ==
    /\ run_over
    /\ ~opts.quit_early
    /\ \E f \in failed_tasks : \E d \in allchildren(f) \cap candidates :
          \E e \in allchildren(d) \cap candidates : f \in started

\* task t has failed in its own actions
own_failure(t) == task_results[t].error = <<"action failed">>

\* the ancestors of t that are in failed_tasks
failed_ancestors(t) == (allparents(t) \ {t}) \cap failed_tasks

\* C3: a run without quit_early comes to its end, and then every task handed
\* to the runner that did not fail in its own actions and has no failed
\* ancestor is in completed_tasks with an empty error
C3_Completes ==
    (pc = "running" /\ ~opts.quit_early) ~>
        (run_over /\ \A t \in handed :
            (~own_failure(t) /\ failed_ancestors(t) = {}) =>
                (t \in completed_tasks /\ task_results[t].error = <<>>))

\* C3 witness: a run without quit_early has ended with a failed task and with
\* a task that neither descends from it nor failed, and has completed
C3_Witness ==
    /\ run_over
    /\ ~opts.quit_early
    /\ \E f \in failed_tasks : \E t \in (handed \cap completed_tasks) \ allchildren(f) :
          own_failure(f) /\ task_results[t].error = <<>>

\* C4: go ends by raising RunFailed exactly when failed_tasks is not empty
\* once no result is left to handle, and by returning exactly when it is
\* empty; reporter.finished() has been called by then and not before; and
\* once go has raised or returned it does not raise again
C4_RunFailedIffFailed ==
    [][/\ (pc = "running" /\ pc' # "running") =>
            /\ result_q = <<>> /\ in_flight = 0
            /\ ~finished /\ finished'
            /\ (pc' = "RunFailed") <=> (failed_tasks' # {})
            /\ (pc' = "returned") <=> (failed_tasks' = {})
       /\ run_over => pc' = pc]_vars

\* C4 witness: go has raised RunFailed after a task failed
C4_Witness ==
    pc = "RunFailed" /\ finished /\ failed_tasks # {} /\ completed_tasks # {}

\* C5: failed_tasks and completed_tasks share no task number
C5_Disjoint == failed_tasks \cap completed_tasks = {}

\* C5 witness: a run with a skipped task, a completed task and a failed task
C5_Witness ==
    /\ skipped # {}
    /\ completed_tasks \ skipped # {}
    /\ failed_tasks # {}

\* in how many of the three ways task i has ended
ways_ended(i) ==
    Cardinality({w \in {"ran", "skipped", "failed"} :
        \/ w = "ran" /\ i \in completed_tasks /\ i \in started /\ i \notin skipped
        \/ w = "skipped" /\ i \in completed_tasks /\ i \in skipped
        \/ w = "failed" /\ i \in failed_tasks})

\* C6 as claimed: when go returns or raises RunFailed every registered task
\* has ended in exactly one of the three ways, whatever the run options
C6_Original == run_over => \A i \in TaskNos : ways_ended(i) = 1

\* C6 amended: when go returns or raises RunFailed in a run without an
\* until_task in effect, and without quit_early or without a failed task,
\* every registered task is in exactly one of: completed_tasks because it ran
\* successfully, completed_tasks because it was skipped, failed_tasks
C6_EveryTaskEnds ==
    (/\ run_over
     /\ until_task_of(opts.until_arg) = None
     /\ (~opts.quit_early \/ failed_tasks = {})) =>
        \A i \in TaskNos : ways_ended(i) = 1

\* C6 witness: such a run has ended with a task of each of the three kinds
C6_Witness ==
    /\ run_over
    /\ until_task_of(opts.until_arg) = None
    /\ ~opts.quit_early
    /\ skipped # {}
    /\ completed_tasks \cap started # {}
    /\ failed_tasks # {}

\* a step that handles the result at the head of the result queue
handles_result == pc = "running" /\ result_q # <<>> /\ result_q' = Tail(result_q)

\* C7: the backend is written (a call of save, or a changed entry) only in a
\* step that handles a result with an empty error; so handling a failed or a
\* parent-failed result, and go's skipping of tasks, leave the backend as
\* it is and call no save
C7_SaveOnlyOnSuccess ==
    [][/\ (store' # store \/ saves' > saves) =>
              (handles_result /\ Head(result_q).error = <<>>)
       /\ (handles_result /\ Head(result_q).error # <<>>) =>
              (store' = store /\ saves' = saves)
       /\ pc = "reg" => store' = store]_vars

\* C7 witness: a run has ended with a skipped task and a failed task, and
\* with a call of save for a task that succeeded
C7_Witness ==
    /\ run_over
    /\ saves > 0
    /\ skipped # {}
    /\ failed_tasks # {}

\* C8 as claimed: right after the successful result of a task is handled, the
\* backend holds, for every tracked object of the task, the compare() the
\* object has at that moment
C8_Original ==
    [][(handles_result /\ Head(result_q).error = <<>>) =>
          \A o \in tracked_objects(TaskAt(Head(result_q).task_no)) :
              store'[o] = cmp'[o]]_vars

\* C8 amended: right after the successful result of a task is handled, the
\* backend holds for every tracked object of the task the compare() that the
\* result carries (computed when the actions of the task ended), and for a
\* depends entry that is not in the dependency index the compare() of that
\* moment; with a pool of one worker this is the compare() of that moment
C8_StoreHoldsResult ==
    [][(handles_result /\ Head(result_q).error = <<>>) =>
          LET result == Head(result_q)
          IN  \A o \in tracked_objects(TaskAt(result.task_no)) :
                /\ store'[o] # Absent
                /\ store'[o] = IF o \in pxdeps(result.task_no)
                               THEN cmp'[o] ELSE result.deps[o]
                /\ opts.n_parallel = 1 => store'[o] = cmp'[o]]_vars

\* C8 witness: a task with a tracked depends entry and a target has
\* completed, and the backend holds a compare() for its target that it did
\* not hold before the run
C8_Witness ==
    \E t \in completed_tasks \cap started :
        /\ TaskAt(t).targets # {}
        /\ \E d \in Range(TaskAt(t).depends) : ~istask(d)
        /\ \A o \in tracked_objects(TaskAt(t)) : store[o] = cmp[o]
        /\ \E o \in TaskAt(t).targets : cmp[o] # 0

\* C9 as claimed: among the statements of handling a result, every write to
\* the backend comes before the task is added to completed_tasks and before
\* task_completed is reported
C9_WritesBeforeCompleted ==
    \A i, j \in DOMAIN hlog.steps :
        (/\ hlog.steps[i] \in {"save", "save_pxdeps"}
         /\ hlog.steps[j] \in {"add_completed", "task_completed"}) => i < j

\* the tasks go considers: all of them, or the ancestors of until_task
go_candidates ==
    IF until_task_of(opts.until_arg) = None THEN dag_nodes
    ELSE allparents(until_task_of(opts.until_arg))

\* C10: in a run, a candidate task with no depends and no targets is handed
\* to the runner and is not skipped
C10_NoDepsNoTargsRuns ==
    pc \in {"running", "returned", "RunFailed"} =>
        \A i \in go_candidates :
            (TaskAt(i).depends = <<>> /\ TaskAt(i).targets = {}) =>
                (i \in handed /\ i \notin skipped)

\* C10 witness: a task with no depends and no targets has been started in a
\* run that skipped another task, over a backend that holds fingerprints
C10_Witness ==
    /\ skipped # {}
    /\ \E o \in Objs : store[o] # Absent
    /\ \E i \in started : TaskAt(i).depends = <<>> /\ TaskAt(i).targets = {}

\* a step in which go hands its deque to the runner
go_step == pc = "reg" /\ pc' = "running"

\* a step in which go does so after an earlier run of the same tasks
go_again == go_step /\ finished

\* run_them_all is asked for neither by the argument of go nor by the
\* configuration
no_run_them_all(o) == ~o.run_them_all /\ ~o.var_run_them_all

\* the tasks with no depends and no targets, and their descendants
always_run ==
    LET roots == {i \in TaskNos : _always_rerun(i)}
    IN  roots \cup UNION {allchildren(i) : i \in roots}

\* C11 as claimed: after a run in which every task succeeded, a second run
\* with nothing changed and without run_them_all skips every task: the deque
\* is empty, every task is reported skipped and the store is unchanged
C11_Original ==
    [][(/\ go_again
        /\ failed_tasks = {}
        /\ completed_tasks = TaskNos
        /\ no_run_them_all(opts')) =>
          /\ pending' = <<>>
          /\ skipped' = TaskNos
          /\ store' = store]_vars

\* C11 amended: after a run in which every task succeeded, a second run with
\* nothing changed and without run_them_all hands to the runner exactly the
\* tasks with no depends and no targets and their descendants, skips every
\* other task and leaves the store unchanged; without such tasks the deque
\* is empty
C11_RerunSkips ==
    [][(/\ go_again
        /\ failed_tasks = {}
        /\ completed_tasks = TaskNos
        /\ no_run_them_all(opts')) =>
          /\ handed' = always_run
          /\ Range(pending') = always_run
          /\ skipped' = TaskNos \ always_run
          /\ completed_tasks' = skipped'
          /\ store' = store]_vars

\* C11 witness: every task of a workflow of two tasks is skipped and the
\* deque is empty, over a store that holds the fingerprint an earlier run
\* saved for the file one of its tasks wrote
C11_Witness ==
    /\ pc = "running"
    /\ Len(tasks) = MaxFpTasks
    /\ skipped = TaskNos
    /\ pending = <<>>
    /\ handed = {}
    /\ cmp["f"] = 1
    /\ store["f"] = 1

C13_FailedTaskRunsAgain ==
    [][(go_again /\ no_run_them_all(opts')) =>
          \A t \in failed_tasks \cap started : t \in handed']_vars

\* C14 as claimed: in a run with run_them_all asked for by the argument of go
\* or by the configuration, every candidate is handed to the runner and no
\* task is reported skipped
C14_RunThemAll ==
    (/\ pc \in {"running", "returned", "RunFailed"}
     /\ (opts.run_them_all \/ opts.var_run_them_all)) =>
        (skipped = {} /\ handed = go_candidates)

\* C15 as claimed: in a run with until_task naming task u, the tasks handed
\* to the runner or skipped are exactly u and its ancestors, and no other
\* task gets into completed_tasks
C15_UntilTask ==
    (/\ pc \in {"running", "returned", "RunFailed"}
     /\ opts.until_arg # None) =>
        /\ handed \cup skipped = allparents(opts.until_arg)
        /\ completed_tasks \subseteq allparents(opts.until_arg)

\* a call of add_task has just raised exc
add_task_raised(exc) == reg_error = NoError /\ reg_error' = exc

\* C16 as claimed: a call of add_task that raises KeyError for an unknown
\* dependency leaves the task list, the dag and the dependency index as they
\* were before the call
C16_RolledBack ==
    [][add_task_raised("KeyError") =>
          /\ tasks' = tasks
          /\ dag_nodes' = dag_nodes
          /\ dag_edges' = dag_edges
          /\ depidx' = depidx]_vars

\* C17 as claimed: the task at position i of the task list has task_no = i
\* (positions from 0), so the task numbers are unique
C17_TaskNoIsPosition ==
    \A i \in DOMAIN tasks : tasks[i].task_no = i - 1

\* C18 as claimed: no two tasks of the task list share a name
C18_NamesUnique ==
    \A i, j \in DOMAIN tasks : i # j => tasks[i].name # tasks[j].name

\* C19: a call of add_task that raises ValueError for a task among its
\* targets takes no task number and leaves the task list, the dag and the
\* dependency index unchanged
C19_TaskTargetRejected ==
    [][add_task_raised("ValueError") =>
          /\ task_counter' = task_counter
          /\ tasks' = tasks
          /\ dag_nodes' = dag_nodes
          /\ dag_edges' = dag_edges
          /\ depidx' = depidx]_vars

\* C19 witness: add_task has raised ValueError in a workflow that has tasks
C19_Witness ==
    /\ reg_error = "ValueError"
    /\ tasks # <<>>
    /\ dag_edges # {}

\* C20 as claimed: the dag is acyclic: no edge leads from a task to itself or
\* to one of its ancestors, and a task that lists a tracked object both as a
\* depends entry and as a target has no edge to itself
C20_Acyclic ==
    /\ \A e \in dag_edges : e[2] \notin allparents(e[1])
    /\ \A i \in DOMAIN tasks :
          <<tasks[i].task_no, tasks[i].task_no>> \notin dag_edges

\* b has a dependency that is a target of a, or lists the task a itself
depends_on(b, a) ==
    \E d \in Range(b.depends) :
        IF istask(d) THEN d.task = a.task_no ELSE d.obj \in a.targets

\* C21: after registration the DAG has the edge a -> b exactly when some
\* dependency of b is a target of a or b lists the task a among its
\* dependencies, in whatever order a and b were registered and however many
\* tasks declare the same target.
C21_EdgeIffDependency ==
    reg_error = NoError =>
        \A i, j \in DOMAIN tasks :
            i # j =>
                (<<tasks[i].task_no, tasks[j].task_no>> \in dag_edges
                    <=> depends_on(tasks[j], tasks[i]))

\* the entries of depends that are no task, are not in the dependency index
\* and have must_preexist true
unknown_deps(depends) ==
    {d \in Range(depends) :
        ~istask(d) /\ must_preexist(d.obj) /\ depidx[d.obj] = NoTask}

\* after the call the object o is the target of a new no-op task, and the
\* DAG has an edge from that task to the task the call has added
auto_registered(o) ==
    \E i \in DOMAIN tasks' :
        /\ tasks'[i].name = "Track pre-existing dependencies"
        /\ tasks'[i].depends = <<>>
        /\ tasks'[i].targets = {o}
        /\ tasks'[i].task_no > task_counter
        /\ <<tasks'[i].task_no, task_counter>> \in dag_edges'

\* C22: a call of add_task with a dependency that is no task, is not in the
\* dependency index and has must_preexist true raises KeyError in strict
\* mode, whether or not the object exists; in non-strict mode it raises
\* KeyError exactly when such an object does not exist, and otherwise every
\* such object becomes the target of a new no-op task with an edge to the
\* new task.
C22_StrictUnknownDependency ==
    [][\A depends \in lists(TaskDeps \cup {ObjDep("f"), ObjDep("g")}, MaxRegDeps),
          targets \in SUBSET {ObjDep("f")}, exist \in SUBSET {"f", "g"} :
          (/\ tasks' # tasks \/ reg_error' # reg_error
           /\ unknown_deps(depends) # {}
           /\ AddTaskCall(NoName, depends, targets, exist, MaxRegTasks)) =>
              IF strict THEN reg_error' = "KeyError"
              ELSE /\ reg_error' = "KeyError"
                        <=> \E d \in unknown_deps(depends) : d.obj \notin exist
                   /\ reg_error' = NoError =>
                        \A d \in unknown_deps(depends) : auto_registered(d.obj)]_vars

\* C22 witness: in non-strict mode a task that depends on an existing file
\* nobody had declared has an edge from the no-op task registered for the
\* file during its own add_task call
C22_Witness ==
    /\ ~strict
    /\ reg_error = NoError
    /\ \E i, j \in DOMAIN tasks :
          /\ tasks[i].name = "Track pre-existing dependencies"
          /\ tasks[i].task_no > tasks[j].task_no
          /\ \E d \in Range(tasks[j].depends) :
                ~istask(d) /\ tasks[i].targets = {d.obj}
          /\ <<tasks[i].task_no, tasks[j].task_no>> \in dag_edges

\* C23 as claimed: a grid worker, generic or SLURM, submits the job of a
\* task at most 4 times: once, and at most 3 more times after a timeout or a
\* memory kill
C23_AtMostThreeResubmissions == Len(submissions) <= 4

\* the job id is what the first submission of the task got
first_jobid(id) == job_log # <<>> /\ job_log[1].jobid = id

\* C24: when the first submission of a task gets no numeric job id, the task
\* is submitted once, its status is never polled, it is not resubmitted, no
\* benchmark is recorded, and the worker's result is a failure whose error
\* has "Unable to submit job to queue."
C24_SubmitFailure ==
    (\E id \in {jobid_of(stdout) : stdout \in Stdouts} :
        first_jobid(id) /\ ~isdigit(id)) =>
        /\ Len(submissions) = 1
        /\ polls.task = 0
        /\ resubmission = 0
        /\ benchmarks = 0
        /\ grid_pc \in {"loop", "returned"}
        /\ "Unable to submit job to queue." \in Range(grid_result.error)

\* C24 witness: the worker has returned the result of a task whose
\* submission printed nothing
C24_Witness ==
    /\ grid_pc = "returned"
    /\ first_jobid("error")
    /\ ~produced

two_timeouts_then_done ==
    /\ Len(job_log) >= 3
    /\ job_timeout(job_log[1].status)
    /\ job_timeout(job_log[2].status)
    /\ job_log[3].status = "COMPLETED"
    /\ Len(job_log) = 3 => return_code = "0" /\ produced

\* C26: after two timeouts and a completed third job the generic worker has
\* made exactly 3 submissions, the third asks for at least twice the time of
\* the first and for the same memory and cores, and the result is a success
C26_TwoTimeoutsThenSuccess ==
    two_timeouts_then_done =>
        /\ Len(submissions) = 3
        /\ submissions[3].time >= 2 * submissions[1].time
        /\ submissions[3].memory = submissions[1].memory
        /\ submissions[3].cores = submissions[1].cores
        /\ grid_pc = "returned" => grid_result.error = <<>>

\* C26 witness: the worker has returned after two timeouts and a third job
\* that completed
C26_Witness ==
    /\ two_timeouts_then_done
    /\ grid_pc = "returned"
    /\ Len(submissions) = 3

\* C27 as claimed: a resubmission after a timeout, in the generic worker and
\* in the SLURM worker, asks for the previous time multiplied by a factor
\* between 1 and 2.7
C27_TimeFactor ==
    [][(grid_pc # "idle" /\ time' # time) =>
          (time' >= time /\ 10 * time' <= 27 * time)]_vars

\* the run has quit_early set and the result of a failed task was handled
quit_early_hit == opts.quit_early /\ failed_tasks # {}

executing(pool) == {t \in running : pool_of(t) = pool}

\* C29: during a run at most n_parallel tasks execute in the local pool and
\* at most n_grid_parallel in the grid pool, and a task is routed to the
\* grid pool exactly when it was registered with grid settings, every other
\* task going to the local pool, which is the default
C29_PoolRates ==
    pc = "running" =>
        /\ Cardinality(executing("local")) <= opts.n_parallel
        /\ Cardinality(executing("grid")) <= opts.n_grid_parallel
        /\ \A t \in handed :
              /\ t \in task_data => pool_of(t) = "grid"
              /\ t \notin task_data => pool_of(t) = "local"

\* C29 witness: with n_parallel = 2 and n_grid_parallel = 1 a task with grid
\* settings and a task without execute at once, while the next task of the
\* deque, which has grid settings, waits for the grid pool
C29_Witness ==
    /\ pc = "running"
    /\ opts.n_parallel = 2
    /\ opts.n_grid_parallel = 1
    /\ executing("grid") # {}
    /\ executing("local") # {}
    /\ pending # <<>>
    /\ next_task \in task_data

\* the workers whose submission is in progress: the submit command runs or
\* the pause after it is not over
submitting == {w \in Workers : worker_pc[w] \in {"command", "sleep"}}

\* C30: of the grid workers that share a grid queue at most one is
\* submitting at any time, and a submit command starts at least submit_sleep
\* seconds after the one before it has returned
C30_OneSubmissionAtATime ==
    /\ Cardinality(submitting) <= 1
    /\ submitting \subseteq {lock_submit}
    /\ submit_gap # Never => submit_gap >= submit_sleep

\* C30 witness: a worker runs its submit command submit_sleep seconds after
\* the submit command of the other worker returned, and that one is idle
C30_Witness ==
    /\ submit_gap = submit_sleep
    /\ \E w, v \in Workers :
          /\ w # v
          /\ worker_pc[w] = "command"
          /\ worker_pc[v] = "idle"
          /\ lock_submit = w

\* the workers whose status query is running
querying == {w \in Workers : worker_pc[w] = "query"}

\* C31: at most one worker at a time runs the scheduler status query, and
\* once a snapshot exists a get_queue_status call without refresh made no
\* more than refresh_rate seconds after the last query returns the cached
\* snapshot without a new query
C31_StatusCached ==
    /\ Cardinality(querying) <= 1
    /\ (/\ status_call.worker \in Workers
        /\ ~status_call.refresh
        /\ status_call.had
        /\ status_call.age <= refresh_rate)
       => (~status_call.queried /\ status_call.returned # None)

\* a call without refresh made exactly refresh_rate seconds after the last
\* query got the cached snapshot
C31_Witness ==
    /\ status_call.worker \in Workers
    /\ ~status_call.refresh
    /\ status_call.had
    /\ status_call.age = refresh_rate
    /\ ~status_call.queried
    /\ status_call.returned # None

\* C32: go sets every task's slot of task_results to the sentinel, and in
\* the run each slot is filled once: a filled slot is never assigned again,
\* and no slot holds the sentinel when the run is over
C32_SlotsFilledOnce ==
    /\ [](run_over => \A i \in TaskNos : task_results[i] # NoResult)
    /\ [][pc = "running" =>
             \A i \in TaskNos : task_results[i] # NoResult
                                   => task_results'[i] = task_results[i]]_vars

\* where x is in seq
position(seq, x) == CHOOSE i \in DOMAIN seq : seq[i] = x

\* C33: the skip filter partitions the candidates of go: each is either in
\* the deque handed to the runner or reported skipped and in
\* completed_tasks, none is both, and the deque has its tasks once each, in
\* the order of a reverse topological sort of the dag
C33_FilterPartitions ==
    [][go_step =>
          /\ handed' \cup skipped' = go_candidates'
          /\ handed' \cap skipped' = {}
          /\ skipped' \subseteq completed_tasks'
          /\ handed' \cap completed_tasks' = {}
          /\ Range(pending') = handed'
          /\ Len(pending') = Cardinality(handed')
          /\ \E task_idxs \in topological_sort_reverse :
                \A i, j \in DOMAIN pending' :
                    i < j => position(task_idxs, pending'[i])
                                 < position(task_idxs, pending'[j])]_vars

\* go has just handed a child and its parent to the runner and skipped a
\* third task
C33_Witness ==
    /\ pc = "running"
    /\ started = {}
    /\ work_q = <<>>
    /\ result_q = <<>>
    /\ skipped # {}
    /\ skipped \subseteq completed_tasks
    /\ \E i, j \in DOMAIN pending : <<pending[j], pending[i]>> \in dag_edges

\* a task the skip filter marks to run for its own sake: it has no depends
\* and no targets, or one of its tracked objects differs from the backend
must_run(a) ==
    \/ _always_rerun(a)
    \/ \E o \in tracked_objects(TaskAt(a)) : any_different(o)

\* C34: when go applies the skip filter, a candidate with an ancestor at any
\* distance that must run is handed to the runner and is not skipped
C34_MustRunClosed ==
    [][(go_step /\ (~opts'.run_them_all \/ ~opts'.var_run_them_all)) =>
          \A t \in go_candidates' :
              (\E a \in allparents(t) \ {t} : must_run(a)) =>
                  (t \in handed' /\ t \notin skipped')]_vars

\* go has handed to the runner a task that must run for no reason of its
\* own and for none of its parents', but for its grandparent's
C34_Witness ==
    /\ pc = "running"
    /\ started = {}
    /\ ~opts.run_them_all
    /\ \E t \in handed :
          /\ ~must_run(t)
          /\ predecessors(t) # {}
          /\ \A b \in predecessors(t) : ~must_run(b)
          /\ \E a \in allparents(t) : must_run(a)

\* C35: a polling round of monitor_grid_job looks at the return code file
\* first: when the file is not empty the job's monitoring ends and the round
\* has made no status poll
C35_ReturnCodeFirst ==
    [][(grid_pc = "monitor" /\ return_code' # "") =>
          (grid_pc' = "loop" /\ polls' = polls)]_vars

\* the monitoring of the task's last job has ended
monitored == grid_pc = "loop" /\ monitors(jobid)

\* the errors monitor_grid_job can add for a return code, and for a status
return_code_errors == {"Return Code Error: " \o rc : rc \in {"", "0", "1"}}

grid_status_errors == {"Grid Status Error: " \o status : status \in Statuses}

\* C36: when the monitoring of a job has ended, the result's error has
\* "Return Code Error: <rc>" exactly when the return code file holds a
\* value other than 0, and "Grid Status Error" exactly when job_failed holds
\* for the final status; with neither, the result is the task's own
C36_GridErrors ==
    monitored =>
        LET errors == Range(grid_result.error)
        IN  /\ (errors \cap return_code_errors # {}) <=> (return_code \notin {"", "0"})
            /\ errors \cap return_code_errors
                   \subseteq {"Return Code Error: " \o return_code}
            /\ (errors \cap grid_status_errors # {}) <=> job_failed(job_final_status)
            /\ (return_code \in {"", "0"} /\ ~job_failed(job_final_status))
                   => grid_result = _get_task_result(produced)

\* a job has stopped with the return code 0 and a status that is no failure,
\* and its targets exist: the result has no error
C36_Witness ==
    /\ monitored
    /\ return_code = "0"
    /\ job_stopped(job_final_status)
    /\ ~job_failed(job_final_status)
    /\ produced
    /\ grid_result.error = <<>>

\* C37: when run_grid_command_resubmit has returned to submit_job, a
\* command whose every run reported the socket timeout was run again
\* timeout_retry_max times, and a command whose first run reported none was
\* run once
C37_RetriesUpToMax ==
    \A w \in Workers :
        worker_pc[w] = "sleep" =>
            /\ (\A i \in DOMAIN outcomes : timeout_error(outcomes[i]))
                   => Len(outcomes) = 1 + timeout_retry_max
            /\ ~timeout_error(outcomes[1]) => Len(outcomes) = 1

\* C38: a function decorated with grid_add_task is registered as one task:
\* the task list gets one entry, the dag one node, the task's targets are
\* linked to it, and its grid settings are kept under its task_no
C38_DecoratorRegistersOnce ==
    [][task_data' # task_data =>
          /\ Len(tasks') = Len(tasks) + 1
          /\ tasks'[Len(tasks')].task_no = task_counter
          /\ dag_nodes' = dag_nodes \cup {task_counter}
          /\ \A o \in tasks'[Len(tasks')].targets : depidx'[o] = task_counter
          /\ task_data' = task_data \cup {task_counter}]_vars

\* C39: a lock of the grid queue is held only by a worker that is inside
\* the call that acquired it: lock_submit inside submit_job, lock_status
\* inside get_queue_status; a call that has ended, by return or by an
\* exception, has released its lock
C39_LocksReleased ==
    /\ lock_submit # Free =>
           worker_pc[lock_submit] \in {"command", "timeout_sleep", "recommand", "sleep"}
    /\ lock_status # Free => worker_pc[lock_status] = "query"

\* the job has ended: it finished, or the scheduler killed it
job_ended == job.state \in all_stopped_codes

\* C40: the polling loop of monitor_grid_job is left only on a stopped
\* status or a non-empty return code file, and once the job has ended,
\* listed by the scheduler or not, the loop is left after finitely many
\* rounds
C40_MonitorEnds ==
    /\ [][(grid_pc = "monitor" /\ grid_pc' = "loop") =>
              (job_stopped(job_final_status') \/ return_code' # "")]_vars
    /\ job_ended ~> (grid_pc = "loop")

====
